---------------------------- MODULE Spec2Model ----------------------------
(***************************************************************************)
(* Model of backend/agent.py: the change detectors, the recompilation      *)
(* scheduler and the workflow cache of the checks agent.                   *)
(*                                                                         *)
(* Text is modelled as a sequence of atoms.  An atom is an indivisible run *)
(* of ordinary characters ("orders", "check_id", "1") or one special       *)
(* character (comma, blank, quote, bar, carriage return, line feed).       *)
(* A Python dict is an association list <<key, value>> in insertion order. *)
(***************************************************************************)
EXTENDS Naturals, Sequences, FiniteSets, TLC

(***************************************************************************)
(* Bounds of the model.                                                    *)
(***************************************************************************)
\* number of runs of main() one behaviour holds (also the clock's range)
MaxRuns == 2

(***************************************************************************)
(* Characters and strings.                                                 *)
(***************************************************************************)
CR == "<CR>"
LF == "<LF>"
DQ == "<DQ>"
SQ == "'"
COMMA == ","
BLANK == " "
BAR == "|"

\* every atom of the model, in ascending order of its text (code points)
AtomOrder ==
  << LF, CR, BLANK, DQ, SQ, COMMA, "1", "2", "3", "4", "5", "::",
     "A", "B", "C", "D", "E", "F", "None", "Users", "[", "]", "amt", "check_id", "check_name",
     "description", "events", "id", "nan", "orders", "target_table",
     "users", "x", "y", BAR >>

AtomRank(a) == CHOOSE i \in 1..Len(AtomOrder) : AtomOrder[i] = a

RECURSIVE StrLess(_, _)
\* Python's str < str, on atoms
StrLess(s, t) ==
  IF t = <<>> THEN FALSE
  ELSE IF s = <<>> THEN TRUE
  ELSE IF Head(s) = Head(t) THEN StrLess(Tail(s), Tail(t))
  ELSE AtomRank(Head(s)) < AtomRank(Head(t))

RECURSIVE Concat(_)
\* "".join(seq of strings)
Concat(ss) == IF ss = <<>> THEN <<>> ELSE Head(ss) \o Concat(Tail(ss))

RECURSIVE Join(_, _)
\* sep.join(seq of strings)
Join(sep, ss) ==
  IF ss = <<>> THEN <<>>
  ELSE IF Len(ss) = 1 THEN ss[1]
  ELSE ss[1] \o sep \o Join(sep, Tail(ss))

Contains(s, a) == \E i \in 1..Len(s) : s[i] = a

\* str.lower() of one atom.  Only target-table text passes through lower();
\* "Users" is the one table atom of the model with an upper-case letter.
LowerAtom(a) == IF a = "Users" THEN "users" ELSE a

IsSpace(a) == a \in {BLANK, CR, LF}

RECURSIVE LStrip(_)
LStrip(s) == IF s # <<>> /\ IsSpace(Head(s)) THEN LStrip(Tail(s)) ELSE s

RECURSIVE RStrip(_)
RStrip(s) ==
  IF s # <<>> /\ IsSpace(s[Len(s)]) THEN RStrip(SubSeq(s, 1, Len(s) - 1)) ELSE s

\* str.strip()
Strip(s) == RStrip(LStrip(s))

\* str.lower()
Lower(s) == [i \in 1..Len(s) |-> LowerAtom(s[i])]

RECURSIVE SplitAcc(_, _, _)
SplitAcc(s, sep, cur) ==
  IF s = <<>> THEN <<cur>>
  ELSE IF Head(s) = sep THEN <<cur>> \o SplitAcc(Tail(s), sep, <<>>)
  ELSE SplitAcc(Tail(s), sep, Append(cur, Head(s)))

\* str.split(sep): always at least one piece
Split(s, sep) == SplitAcc(s, sep, <<>>)

RECURSIVE SelectNonEmptyStripped(_)
\* [x for x in pieces if x.strip()]
SelectNonEmptyStripped(ps) ==
  IF ps = <<>> THEN <<>>
  ELSE IF Strip(Head(ps)) # <<>>
       THEN <<Head(ps)>> \o SelectNonEmptyStripped(Tail(ps))
       ELSE SelectNonEmptyStripped(Tail(ps))

(***************************************************************************)
(* Python values of a registry row: a string, None, a list of strings, or  *)
(* the NaN pandas puts where a row lacks a column.                         *)
(***************************************************************************)
StrV(s) == [t |-> "str", s |-> s, l |-> <<>>]
NoneV == [t |-> "none", s |-> <<>>, l |-> <<>>]
NanV == [t |-> "nan", s |-> <<>>, l |-> <<>>]
ListV(l) == [t |-> "list", s |-> <<>>, l |-> l]

\* str(x)
PyStr(v) ==
  CASE v.t = "str" -> v.s
    [] v.t = "none" -> <<"None">>
    [] v.t = "nan" -> <<"nan">>
    [] OTHER -> <<"[">>
                \o Join(<<COMMA, BLANK>>,
                        [i \in 1..Len(v.l) |-> <<SQ>> \o v.l[i] \o <<SQ>>])
                \o <<"]">>

\* json.dumps(x, sort_keys=True) of a list of strings
JsonDumpsList(l) ==
  <<"[">> \o Join(<<COMMA, BLANK>>, [i \in 1..Len(l) |-> <<DQ>> \o l[i] \o <<DQ>>])
         \o <<"]">>

(***************************************************************************)
(* Python dicts as association lists.                                      *)
(***************************************************************************)
DictKeys(d) == {d[i][1] : i \in 1..Len(d)}
DictHas(d, k) == k \in DictKeys(d)
DictGet(d, k) == d[CHOOSE i \in 1..Len(d) : d[i][1] = k][2]
\* an assignment that adds the new list to the one already under the key
DictSet_Extend(d, k, v) ==
  IF DictHas(d, k)
  THEN [i \in 1..Len(d) |-> IF d[i][1] = k THEN <<k, d[i][2] \o v>> ELSE d[i]]
  ELSE Append(d, <<k, v>>)

\* d = {k: v} : a new dict holding the one key
DictSet_Rebuild(d, k, v) == <<<<k, v>>>>

\* d[k] = v : replaces in place, or appends
DictSet(d, k, v) ==
  IF DictHas(d, k)
  THEN [i \in 1..Len(d) |-> IF d[i][1] = k THEN <<k, v>> ELSE d[i]]
  ELSE Append(d, <<k, v>>)
\* a comparison of the keys alone
DictEq_KeysOnly(d1, d2) == DictKeys(d1) = DictKeys(d2)

\* d1 == d2 : same keys, same values, whatever the order
DictEq(d1, d2) ==
  /\ DictKeys(d1) = DictKeys(d2)
  /\ \A k \in DictKeys(d1) : DictGet(d1, k) = DictGet(d2, k)
\* row.get(k) on a row of the registry
RowGet(row, k) == IF DictHas(row, k) THEN DictGet(row, k) ELSE NoneV

(***************************************************************************)
(* pandas.DataFrame(checks): the columns in order of first appearance, one *)
(* line of cells per row, NaN where a row lacks the column.                *)
(***************************************************************************)
RECURSIVE FirstAppearance(_, _)
FirstAppearance(keys, seen) ==
  IF keys = <<>> THEN <<>>
  ELSE IF Head(keys) \in seen THEN FirstAppearance(Tail(keys), seen)
  ELSE <<Head(keys)>> \o FirstAppearance(Tail(keys), seen \cup {Head(keys)})

RowKeys(row) == [i \in 1..Len(row) |-> row[i][1]]

DataFrame(checks) ==
  LET cols == FirstAppearance(Concat([i \in 1..Len(checks) |-> RowKeys(checks[i])]), {})
  IN [columns |-> cols,
      data |-> [i \in 1..Len(checks) |->
                 [j \in 1..Len(cols) |->
                    IF DictHas(checks[i], cols[j])
                    THEN DictGet(checks[i], cols[j]) ELSE NanV]]]

\* df.empty
DfEmpty(df) == Len(df.data) = 0 \/ Len(df.columns) = 0

\* row.get(col) on a row of df.iterrows()
CellGet(df, i, col) ==
  IF \E j \in 1..Len(df.columns) : df.columns[j] = col
  THEN df.data[i][CHOOSE j \in 1..Len(df.columns) : df.columns[j] = col]
  ELSE NoneV

\* row.to_dict()
RowToDict(df, i) == [j \in 1..Len(df.columns) |-> <<df.columns[j], df.data[i][j]>>]

(***************************************************************************)
(* _stable_csv and _sha256.                                                *)
(***************************************************************************)
AtomLess(a, b) == AtomRank(a) < AtomRank(b)

RECURSIVE InsertAtom(_, _)
InsertAtom(x, xs) ==
  IF xs = <<>> THEN <<x>>
  ELSE IF AtomLess(x, Head(xs)) THEN <<x>> \o xs
  ELSE <<Head(xs)>> \o InsertAtom(x, Tail(xs))

RECURSIVE SortAtoms(_)
\* sorted(df2.columns.tolist())
SortAtoms(xs) ==
  IF xs = <<>> THEN <<>>
  ELSE InsertAtom(xs[Len(xs)], SortAtoms(SubSeq(xs, 1, Len(xs) - 1)))

\* the cell as line 35 leaves it: a list becomes its JSON text
Coerce(v) == IF v.t = "list" THEN StrV(JsonDumpsList(v.l)) ELSE v

\* one field of to_csv: NaN and None are empty, a field with a comma, a
\* quote or a line feed is quoted, quotes doubled
CsvField(v) ==
  IF v.t \in {"none", "nan"} THEN <<>>
  ELSE IF Contains(v.s, COMMA) \/ Contains(v.s, DQ) \/ Contains(v.s, LF)
       THEN <<DQ>> \o Concat([i \in 1..Len(v.s) |->
                                IF v.s[i] = DQ THEN <<DQ, DQ>> ELSE <<v.s[i]>>])
                   \o <<DQ>>
       ELSE v.s

CsvLine(fields) == Join(<<COMMA>>, fields) \o <<LF>>

SortKey(cells) == Join(<<BAR>>, [j \in 1..Len(cells) |-> PyStr(cells[j])])

SortKeyLess(r1, r2) == StrLess(SortKey(r1), SortKey(r2))

RECURSIVE InsertRow(_, _)
\* rows with equal sort keys keep their order
InsertRow(x, xs) ==
  IF xs = <<>> THEN <<x>>
  ELSE IF SortKeyLess(x, Head(xs)) THEN <<x>> \o xs
  ELSE <<Head(xs)>> \o InsertRow(x, Tail(xs))

RECURSIVE SortRows(_)
\* df2.sort_values("_sortkey")
SortRows(xs) ==
  IF xs = <<>> THEN <<>>
  ELSE InsertRow(xs[Len(xs)], SortRows(SubSeq(xs, 1, Len(xs) - 1)))

_stable_csv(df) ==
  LET cols == SortAtoms(df.columns)
      pos(c) == CHOOSE j \in 1..Len(df.columns) : df.columns[j] = c
      df2 == [i \in 1..Len(df.data) |->
                [j \in 1..Len(cols) |-> Coerce(df.data[i][pos(cols[j])])]]
      sorted == SortRows(df2)
  IN CsvLine([j \in 1..Len(cols) |-> <<cols[j]>>])
       \o Concat([i \in 1..Len(sorted) |->
                    CsvLine([j \in 1..Len(cols) |-> CsvField(sorted[i][j])])])

\* SHA-256 is taken to be injective: the digest stands for the text hashed
_sha256(s) == <<"sha256">> \o s

(***************************************************************************)
(* key_for and parse_targets.                                              *)
(***************************************************************************)
\* f"{check_row.get('check_id')}::{check_row.get('check_name')}"
key_for(check_row) ==
  PyStr(RowGet(check_row, "check_id")) \o <<"::">>
    \o PyStr(RowGet(check_row, "check_name"))

parse_targets(target_table) ==
  CASE target_table.t = "none" -> <<>>
    [] target_table.t = "list" ->
         [i \in 1..Len(target_table.l) |-> Lower(Strip(target_table.l[i]))]
    [] target_table.t = "str" ->
         LET kept == SelectNonEmptyStripped(Split(target_table.s, COMMA))
         IN [i \in 1..Len(kept) |-> Lower(Strip(kept[i]))]
    [] OTHER -> <<Lower(Strip(PyStr(target_table)))>>

\* set(xs)
SeqToSet(xs) == {xs[i] : i \in 1..Len(xs)}

\* sorted(set of strings)
RECURSIVE SortedStrSet(_)
SortedStrSet(S) ==
  IF S = {} THEN <<>>
  ELSE LET m == CHOOSE x \in S : \A y \in S \ {x} : StrLess(x, y)
       IN <<m>> \o SortedStrSet(S \ {m})

(***************************************************************************)
(* Files.  A text file holds atoms, a JSON file holds the chunks json.dump *)
(* wrote.  Python opens both in text mode with the default newline=None:   *)
(* writing leaves "\n" alone on POSIX, reading turns "\r\n" and "\r" into  *)
(* "\n" (universal newlines).                                              *)
(***************************************************************************)
NoFile == [exists |-> FALSE, content |-> <<>>]
FileOf(content) == [exists |-> TRUE, content |-> content]

\* f.write(s) through open(path, "w", encoding="utf-8")
WriteText(s) == s

RECURSIVE ReadText(_)
\* f.read() through open(path, "r", encoding="utf-8")
ReadText(s) ==
  IF s = <<>> THEN <<>>
  ELSE IF Head(s) = CR
       THEN IF Len(s) >= 2 /\ s[2] = LF
            THEN <<LF>> \o ReadText(Tail(Tail(s)))
            ELSE <<LF>> \o ReadText(Tail(s))
       ELSE <<Head(s)>> \o ReadText(Tail(s))

\* json.dump(d, f, indent=2) of a dict: the chunks it writes, in order
JsonDump(d) ==
  <<[k |-> "{"]>>
    \o [i \in 1..Len(d) |-> [k |-> "member", key |-> d[i][1], val |-> d[i][2]]]
    \o <<[k |-> "}"]>>

\* whether json.load accepts the chunks: a whole document and nothing else
JsonValid(toks) ==
  /\ Len(toks) >= 2
  /\ toks[1].k = "{"
  /\ toks[Len(toks)].k = "}"
  /\ \A i \in 2..(Len(toks) - 1) : toks[i].k = "member"

\* json.load(f) of a valid document
JsonLoad(toks) == [i \in 1..(Len(toks) - 2) |-> <<toks[i + 1].key, toks[i + 1].val>>]

(***************************************************************************)
(* The inputs of the model: the registries checks.json may hold and the    *)
(* column lists the data files may have.                                   *)
(***************************************************************************)
Check(id, name, target, descr) ==
  << <<"check_id", StrV(<<id>>)>>, <<"check_name", StrV(<<name>>)>>,
     <<"target_table", target>>, <<"description", StrV(descr)>> >>

CheckA == Check("1", "A", StrV(<<"orders">>), <<"x">>)
CheckB == Check("2", "B", StrV(<<"users", COMMA, "orders">>), <<"x">>)
CheckC == Check("3", "C", StrV(<<"events">>), <<"x">>)
\* A, its description revised
CheckA2 == Check("1", "A", StrV(<<"orders">>), <<"y">>)
\* A, its description holding a carriage return ("x\ry" in checks.json)
CheckA3 == Check("1", "A", StrV(<<"orders">>), <<"x", CR, "y">>)
\* a check with "target_table": null
CheckD == Check("4", "D", NoneV, <<"x">>)

\* two checks whose cells differ and whose cells joined by "|" agree:
\* id "5" with name "E|F", id "5|E" with name "F"
CheckE ==
  << <<"check_id", StrV(<<"5">>)>>, <<"check_name", StrV(<<"E", BAR, "F">>)>>,
     <<"target_table", StrV(<<"orders">>)>>, <<"description", StrV(<<"x">>)>> >>
CheckF ==
  << <<"check_id", StrV(<<"5", BAR, "E">>)>>, <<"check_name", StrV(<<"F">>)>>,
     <<"target_table", StrV(<<"orders">>)>>, <<"description", StrV(<<"x">>)>> >>

\* the same row, its keys written in the opposite order
KeysReversed(row) == [i \in 1..Len(row) |-> row[Len(row) + 1 - i]]

\* a check without a single field ({} in checks.json)
CheckNoFields == <<>>

\* checks.json: missing or malformed, or a list of rows
BadJson == [ok |-> FALSE, rows |-> <<>>]
Json(rows) == [ok |-> TRUE, rows |-> rows]

Registries ==
  { Json(<<CheckA, CheckB, CheckC>>),
    Json(<<CheckA2, CheckB, CheckC>>),
    Json(<<CheckA3, CheckB, CheckC>>),
    Json(<<CheckA, CheckB, CheckC, CheckD>>),
    Json(<<CheckNoFields>>),
    Json(<<>>),
    BadJson }

\* registries that are rewritten by another producer: rows and keys in
\* another order
Rewritten ==
  { Json(<<CheckA, CheckB, CheckC>>),
    Json(<<KeysReversed(CheckC), CheckA, KeysReversed(CheckB)>>),
    Json(<<CheckE, CheckF>>),
    Json(<<CheckF, CheckE>>) }

\* a check whose target_table is a JSON list: ["orders", "", " Users "]
CheckL ==
  << <<"check_id", StrV(<<"2">>)>>, <<"check_name", StrV(<<"B">>)>>,
     <<"target_table", ListV(<< <<"orders">>, <<>>, <<BLANK, "Users", BLANK>> >>)>>,
     <<"description", StrV(<<"x">>)>> >>
\* a check without the key target_table
CheckM ==
  << <<"check_id", StrV(<<"3">>)>>, <<"check_name", StrV(<<"C">>)>>,
     <<"description", StrV(<<"x">>)>> >>
\* a check whose target_table is " , "
CheckW == Check("4", "D", StrV(<<BLANK, COMMA, BLANK>>), <<"x">>)
\* two checks of different identity: id "1::A" with name "B", id "1" with
\* name "A::B"
CheckK1 ==
  << <<"check_id", StrV(<<"1", "::", "A">>)>>, <<"check_name", StrV(<<"B">>)>>,
     <<"target_table", StrV(<<"orders">>)>>, <<"description", StrV(<<"x">>)>> >>
CheckK2 ==
  << <<"check_id", StrV(<<"1">>)>>, <<"check_name", StrV(<<"A", "::", "B">>)>>,
     <<"target_table", StrV(<<"users">>)>>, <<"description", StrV(<<"y">>)>> >>
\* A, its description "x\r\ny", and A, its description "x\ny"
CheckA4 == Check("1", "A", StrV(<<"orders">>), <<"x", CR, LF, "y">>)
CheckA5 == Check("1", "A", StrV(<<"orders">>), <<"x", LF, "y">>)

\* registries out of the ordinary
Unusual ==
  { Json(<<CheckA, CheckL>>),
    Json(<<CheckB, CheckM, CheckW>>),
    Json(<<CheckK1, CheckK2>>),
    Json(<<CheckA4>>),
    Json(<<CheckA5>>),
    Json(<<CheckNoFields>>) }

Tables == {"orders", "users", "events"}
NoTable == [exists |-> FALSE, cols |-> <<>>]
TableOf(cols) == [exists |-> TRUE, cols |-> cols]
\* what data/<table>.csv may be
TableChoices(t) ==
  IF t = "users" THEN {TableOf(<<"id">>), TableOf(<<"id", "amt">>), NoTable}
  ELSE {TableOf(<<"id">>)}

(***************************************************************************)
(* load_csv, as far as its columns go.                                     *)
(***************************************************************************)
load_csv_columns(name, data) ==
  IF Len(name) = 1 /\ name[1] \in Tables /\ data[name[1]].exists
  THEN data[name[1]].cols
  ELSE <<>>

\* line 51: pd.read_csv raises EmptyDataError on a file that exists and has
\* no columns to parse (an empty file)
read_csv_raises(name, data) ==
  /\ Len(name) = 1 /\ name[1] \in Tables
  /\ data[name[1]].exists
  /\ data[name[1]].cols = <<>>

\* lines 102-104: the loop over the tables has no handler, the first
\* load_csv that raises ends detect_schema_changes
schema_read_raises(tables, data) ==
  \E i \in 1..Len(tables) : read_csv_raises(tables[i], data)

(***************************************************************************)
(* detect_checks_changes: what it returns and what it leaves in            *)
(* checks_last.csv.                                                        *)
(***************************************************************************)
\* lines 72-77
current_csv_of(checks_df) ==
  IF DfEmpty(checks_df) THEN <<"check_id", LF>> ELSE _stable_csv(checks_df)

\* line 88
ChecksHashDiffers(current_csv, last_csv) == _sha256(current_csv) # _sha256(last_csv)

\* a first run that writes the baseline and reports no change
first_run_Unchanged(checks_df, current_csv) ==
  [raised |-> FALSE, changed |-> FALSE, checks_df |-> checks_df,
   file |-> FileOf(WriteText(current_csv)), wrote |-> TRUE]

\* lines 79-83: no snapshot yet
first_run(checks_df, current_csv) ==
  [raised |-> FALSE, changed |-> TRUE, checks_df |-> checks_df,
   file |-> FileOf(WriteText(current_csv)), wrote |-> TRUE]

\* a load that never raises: an unreadable registry counts as an empty one
registry_raises_Never(src) == FALSE

\* lines 65-69: checks.json is missing (FileNotFoundError) or json.load raises
registry_raises(src) == ~src.ok

detect_checks_changes(src, last) ==
  IF registry_raises(src)
  THEN [raised |-> TRUE, changed |-> FALSE, checks_df |-> DataFrame(<<>>),
        file |-> last, wrote |-> FALSE]
  ELSE LET checks_df == DataFrame(src.rows)
           current_csv == current_csv_of(checks_df)
       IN IF ~last.exists
          THEN first_run(checks_df, current_csv)
          ELSE LET changed == ChecksHashDiffers(current_csv, ReadText(last.content))
               IN [raised |-> FALSE, changed |-> changed, checks_df |-> checks_df,
                   file |-> IF changed THEN FileOf(WriteText(current_csv)) ELSE last,
                   wrote |-> changed]

(***************************************************************************)
(* detect_schema_changes.                                                  *)
(***************************************************************************)
\* an observation that leaves out the tables whose file is missing
observe_schema_SkipAbsent(tables, data) ==
  LET present == SelectSeq(tables, LAMBDA t : Len(t) = 1 /\ t[1] \in Tables
                                               /\ data[t[1]].exists)
  IN [i \in 1..Len(present) |-> <<present[i], load_csv_columns(present[i], data)>>]

\* lines 101-104
observe_schema(tables, data) ==
  [i \in 1..Len(tables) |-> <<tables[i], load_csv_columns(tables[i], data)>>]

detect_schema_changes(tables, data, cache) ==
  LET current == observe_schema(tables, data)
  IN IF ~cache.exists
     THEN [changed |-> TRUE, current |-> current,
           file |-> FileOf(JsonDump(current)), wrote |-> TRUE]
     ELSE LET changed == ~DictEq(JsonLoad(cache.content), current)
          IN [changed |-> changed, current |-> current,
              file |-> IF changed THEN FileOf(JsonDump(current)) ELSE cache,
              wrote |-> changed]

(***************************************************************************)
(* load_workflows and save_workflows.                                      *)
(***************************************************************************)
\* a save that leaves the compiled_against stamp out of every artifact
save_workflows_NoStamp(wf) ==
  JsonDump([i \in 1..Len(wf) |->
              <<wf[i][1],
                [j \in 1..Len(wf[i][2]) |->
                   [type |-> wf[i][2][j].type, artifact |-> wf[i][2][j].artifact,
                    compiled_at |-> wf[i][2][j].compiled_at]]>>])

\* line 134: what json.dump(wf, f, indent=2) writes
save_workflows(wf) == JsonDump(wf)

\* a load that keeps the members it could read from a document cut short
load_workflows_Salvage(cache) ==
  IF ~cache.exists THEN <<>>
  ELSE LET ms == SelectSeq(cache.content, LAMBDA c : c.k = "member")
       IN [i \in 1..Len(ms) |-> <<ms[i].key, ms[i].val>>]

\* lines 122-129
load_workflows(cache) ==
  IF ~cache.exists THEN <<>>
  ELSE IF JsonValid(cache.content) THEN JsonLoad(cache.content)
  ELSE <<>>

(***************************************************************************)
(* main, lines 168-212: the tables of interest and the schedule.           *)
(***************************************************************************)
RowTargets(df, i) == parse_targets(CellGet(df, i, "target_table"))

\* lines 168-175
target_tables_of(checks_df) ==
  IF DfEmpty(checks_df) THEN <<>>
  ELSE SortedStrSet(UNION {SeqToSet(RowTargets(checks_df, i)) :
                             i \in 1..Len(checks_df.data)})

\* lines 190-200
changed_tables_of(schema_changed, target_tables) ==
  IF schema_changed THEN SeqToSet(target_tables) ELSE {}

\* a selection that filters by table even when the registry changed
row_selected_TablesOnly(checks_changed, targets, changed_tables) ==
  targets \cap changed_tables # {}

\* lines 203-209: whether the row is appended
row_selected(checks_changed, targets, changed_tables) ==
  IF checks_changed THEN TRUE ELSE targets \cap changed_tables # {}

RECURSIVE SelectRows(_, _, _, _)
\* lines 202-209, rows i..n
SelectRows(df, i, checks_changed, changed_tables) ==
  IF i > Len(df.data) THEN <<>>
  ELSE (IF row_selected(checks_changed, SeqToSet(RowTargets(df, i)), changed_tables)
        THEN <<RowToDict(df, i)>> ELSE <<>>)
       \o SelectRows(df, i + 1, checks_changed, changed_tables)

\* lines 184-212
checks_to_compile_of(checks_changed, schema_changed, checks_df, target_tables) ==
  IF checks_changed \/ schema_changed
  THEN SelectRows(checks_df, 1, checks_changed,
                  changed_tables_of(schema_changed, target_tables))
  ELSE <<>>

\* line 219
schema_context_of(current_schema, target_tables) ==
  [i \in 1..Len(target_tables) |->
     <<target_tables[i],
       IF DictHas(current_schema, target_tables[i])
       THEN DictGet(current_schema, target_tables[i]) ELSE <<>> >>]

\* lines 233 and 242
checks_hash_of(checks_df) ==
  _sha256(IF ~DfEmpty(checks_df) THEN _stable_csv(checks_df) ELSE <<>>)

\* what use_agent returns when it returns; the artifacts are opaque
use_agent(chk, schema_cols) ==
  [plan |-> [kind |-> "plan", check |-> key_for(chk)],
   execution |-> [kind |-> "execution", check |-> key_for(chk)]]

\* lines 227-246
Artifact(type, artifact, now, checks_df, schema_context) ==
  [type |-> type, artifact |-> artifact, compiled_at |-> now,
   compiled_against |-> [checks_hash |-> checks_hash_of(checks_df),
                         schema_cols |-> schema_context]]

workflow_entry(agent_out, now, checks_df, schema_context) ==
  << Artifact("plan", agent_out.plan, now, checks_df, schema_context),
     Artifact("execution", agent_out.execution, now, checks_df, schema_context) >>

\* a loop that stops one check early
loop_done_Early(i, n) == i >= n

\* line 221: the for loop is over once every scheduled check was taken
loop_done(i, n) == i > n

(***************************************************************************)
(* The state.                                                              *)
(***************************************************************************)
VARIABLES
  checksJson,        \* checks/checks.json
  dataCols,          \* data/<table>.csv, per table
  checksLast,        \* cached_mem/checks_last.csv
  schemaCache,       \* cached_mem/schema_cols.json
  workflowCache,     \* cached_mem/workflows.json
  clock,             \* datetime.now(), one tick per run
  pc,                \* where main() is
  checks_changed, checks_df, schema_changed, current_schema, target_tables,
  workflows, checks_to_compile, idx, compiled,   \* main's locals
  pending,           \* the chunks json.dump has still to write
  crashCause,        \* the exception that ended the run, if one did
  pre,               \* the three files, and stable, as the run found them;
                     \* owed: the keys the previous run scheduled and, ending
                     \* by an exception, did not persist
  succeeded, failed, \* keys whose use_agent call returned / raised, this run
  wrote,             \* which files this run wrote
  stable,            \* no input changed since the detectors last ran
  readerObs          \* what a concurrent reader of workflows.json last saw

disk == <<checksLast, schemaCache, workflowCache>>
inputs == <<checksJson, dataCols>>
locals == <<checks_changed, checks_df, schema_changed, current_schema,
            target_tables, workflows, checks_to_compile, idx, compiled, pending>>
ghosts == <<pre, succeeded, failed, wrote>>
vars == <<inputs, disk, clock, pc, locals, crashCause, ghosts, stable, readerObs>>

NoDf == DataFrame(<<>>)
NoPre ==
  [checks |-> NoFile, schema |-> NoFile, workflows |-> NoFile, stable |-> FALSE,
   owed |-> {}]
NoWrites == [checks |-> FALSE, schema |-> FALSE, workflows |-> FALSE]

FreshLocals ==
  /\ checks_changed = FALSE
  /\ checks_df = NoDf
  /\ schema_changed = FALSE
  /\ current_schema = <<>>
  /\ target_tables = <<>>
  /\ workflows = <<>>
  /\ checks_to_compile = <<>>
  /\ idx = 1
  /\ compiled = 0
  /\ pending = <<>>

Init ==
  /\ checksJson \in Registries
  /\ dataCols \in [Tables -> UNION {TableChoices(t) : t \in Tables}]
  /\ \A t \in Tables : dataCols[t] \in TableChoices(t)
  /\ checksLast = NoFile
  /\ schemaCache = NoFile
  /\ workflowCache = NoFile
  /\ clock = 0
  /\ pc = "idle"
  /\ FreshLocals
  /\ crashCause = "none"
  /\ pre = NoPre
  /\ succeeded = {}
  /\ failed = {}
  /\ wrote = NoWrites
  /\ stable = FALSE
  /\ readerObs = [status |-> "none", inSave |-> FALSE]

(***************************************************************************)
(* The environment: between runs, checks.json is edited and tables change. *)
(***************************************************************************)
EditRegistry ==
  /\ pc = "idle"
  /\ \E r \in Registries \ {checksJson} : checksJson' = r
  /\ stable' = FALSE
  /\ UNCHANGED <<dataCols, disk, clock, pc, locals, crashCause, ghosts, readerObs>>

AlterTable ==
  /\ pc = "idle"
  /\ \E t \in Tables : \E c \in TableChoices(t) \ {dataCols[t]} :
        dataCols' = [dataCols EXCEPT ![t] = c]
  /\ stable' = FALSE
  /\ UNCHANGED <<checksJson, disk, clock, pc, locals, crashCause, ghosts, readerObs>>

\* workflows.json is damaged between runs: the document is cut short, which
\* is what json.load of load_workflows (lines 125-129) rejects
CorruptCache ==
  /\ pc = "idle"
  /\ workflowCache.exists
  /\ JsonValid(workflowCache.content)
  /\ workflowCache' =
        FileOf(SubSeq(workflowCache.content, 1, Len(workflowCache.content) - 1))
  /\ UNCHANGED <<inputs, checksLast, schemaCache, clock, pc, locals, crashCause,
                 ghosts, stable, readerObs>>

(***************************************************************************)
(* main().                                                                 *)
(***************************************************************************)
StartRun ==
  /\ pc = "idle"
  /\ clock < MaxRuns
  /\ clock' = clock + 1
  /\ pc' = "detect_checks"
  /\ pre' = [checks |-> checksLast, schema |-> schemaCache,
             workflows |-> workflowCache, stable |-> stable, owed |-> pre.owed]
  /\ UNCHANGED <<inputs, disk, locals, crashCause, succeeded, failed, wrote, stable,
                 readerObs>>

\* line 163
DetectChecks ==
  /\ pc = "detect_checks"
  /\ LET r == detect_checks_changes(checksJson, checksLast)
     IN /\ checksLast' = r.file
        /\ wrote' = [wrote EXCEPT !.checks = r.wrote]
        /\ checks_changed' = r.changed
        /\ checks_df' = r.checks_df
        /\ pc' = IF r.raised THEN "crashed" ELSE "detect_schema"
        /\ crashCause' = IF r.raised THEN "RegistryLoadError" ELSE crashCause
  /\ UNCHANGED <<inputs, schemaCache, workflowCache, clock, schema_changed,
                 current_schema, target_tables, workflows, checks_to_compile, idx,
                 compiled, pending, pre, succeeded, failed, stable, readerObs>>

\* lines 168-177
DetectSchema ==
  /\ pc = "detect_schema"
  /\ LET tables == target_tables_of(checks_df)
         r == detect_schema_changes(tables, dataCols, schemaCache)
         raised == schema_read_raises(tables, dataCols)
     IN /\ target_tables' = tables
        /\ schemaCache' = IF raised THEN schemaCache ELSE r.file
        /\ wrote' = [wrote EXCEPT !.schema = ~raised /\ r.wrote]
        /\ schema_changed' = IF raised THEN schema_changed ELSE r.changed
        /\ current_schema' = IF raised THEN current_schema ELSE r.current
        /\ stable' = IF raised THEN stable ELSE TRUE
        /\ pc' = IF raised THEN "crashed" ELSE "load"
        /\ crashCause' = IF raised THEN "SchemaReadError" ELSE crashCause
  /\ UNCHANGED <<inputs, checksLast, workflowCache, clock, checks_changed, checks_df,
                 workflows, checks_to_compile, idx, compiled, pending, pre,
                 succeeded, failed, readerObs>>

\* line 181
LoadWorkflows ==
  /\ pc = "load"
  /\ workflows' = load_workflows(workflowCache)
  /\ pc' = "schedule"
  /\ UNCHANGED <<inputs, disk, clock, checks_changed, checks_df, schema_changed,
                 current_schema, target_tables, checks_to_compile, idx, compiled,
                 pending, crashCause, ghosts, stable, readerObs>>

\* lines 184-216
Schedule ==
  /\ pc = "schedule"
  /\ checks_to_compile' =
        checks_to_compile_of(checks_changed, schema_changed, checks_df, target_tables)
  /\ pc' = IF checks_to_compile' # <<>> THEN "compile" ELSE "report"
  /\ UNCHANGED <<inputs, disk, clock, checks_changed, checks_df, schema_changed,
                 current_schema, target_tables, workflows, idx, compiled, pending,
                 crashCause, ghosts, stable, readerObs>>

\* lines 221-248, one turn of the loop whose use_agent call returns
CompileOk ==
  /\ pc = "compile"
  /\ ~loop_done(idx, Len(checks_to_compile))
  /\ LET chk == checks_to_compile[idx]
         k == key_for(chk)
         schema_context == schema_context_of(current_schema, target_tables)
         agent_out == use_agent(chk, schema_context)
     IN /\ workflows' = DictSet(workflows, k,
                                workflow_entry(agent_out, clock, checks_df, schema_context))
        /\ succeeded' = succeeded \cup {k}
  /\ compiled' = compiled + 1
  /\ idx' = idx + 1
  /\ UNCHANGED <<inputs, disk, clock, pc, checks_changed, checks_df, schema_changed,
                 current_schema, target_tables, checks_to_compile, pending, crashCause,
                 pre, failed, wrote, stable, readerObs>>

\* line 225: use_agent raises (the LLM call fails, the agent raises); main
\* catches nothing, so the exception ends the run
CompileRaise ==
  /\ pc = "compile"
  /\ ~loop_done(idx, Len(checks_to_compile))
  /\ failed' = failed \cup {key_for(checks_to_compile[idx])}
  /\ pc' = "crashed"
  /\ crashCause' = "CompilationError"
  /\ UNCHANGED <<inputs, disk, clock, locals, pre, succeeded, wrote, stable, readerObs>>

\* line 250, save_workflows line 133: open(..., "w") truncates the file
SaveOpen ==
  /\ pc = "compile"
  /\ loop_done(idx, Len(checks_to_compile))
  /\ workflowCache' = FileOf(<<>>)
  /\ pending' = save_workflows(workflows)
  /\ wrote' = [wrote EXCEPT !.workflows = TRUE]
  /\ pc' = "save"
  /\ UNCHANGED <<inputs, checksLast, schemaCache, clock, checks_changed, checks_df,
                 schema_changed, current_schema, target_tables, workflows,
                 checks_to_compile, idx, compiled, crashCause, pre, succeeded, failed,
                 stable, readerObs>>

\* save_workflows line 134: json.dump writes the next chunk.  The text layer
\* hands what it buffered to the file in pieces; every chunk boundary is a
\* place where the file on disk may stand, the empty file after the open
\* always is one.
SaveWrite ==
  /\ pc = "save"
  /\ pending # <<>>
  /\ workflowCache' = FileOf(Append(workflowCache.content, Head(pending)))
  /\ pending' = Tail(pending)
  /\ UNCHANGED <<inputs, checksLast, schemaCache, clock, pc, checks_changed, checks_df,
                 schema_changed, current_schema, target_tables, workflows,
                 checks_to_compile, idx, compiled, crashCause, ghosts, stable, readerObs>>

\* the with block of save_workflows closes the file
SaveClose ==
  /\ pc = "save"
  /\ pending = <<>>
  /\ pc' = "report"
  /\ UNCHANGED <<inputs, disk, clock, locals, crashCause, ghosts, stable, readerObs>>

\* lines 253-266
Report ==
  /\ pc = "report"
  /\ pc' = "done"
  /\ UNCHANGED <<inputs, disk, clock, locals, crashCause, ghosts, stable, readerObs>>

\* the process exits; the next run starts from fresh locals
EndRun ==
  /\ pc \in {"done", "crashed"}
  /\ pc' = "idle"
  /\ checks_changed' = FALSE
  /\ checks_df' = NoDf
  /\ schema_changed' = FALSE
  /\ current_schema' = <<>>
  /\ target_tables' = <<>>
  /\ workflows' = <<>>
  /\ checks_to_compile' = <<>>
  /\ idx' = 1
  /\ compiled' = 0
  /\ pending' = <<>>
  /\ crashCause' = "none"
  /\ pre' = [NoPre EXCEPT !.owed =
               IF pc = "crashed" /\ crashCause # "RegistryLoadError"
               THEN {key_for(checks_to_compile[i]) : i \in 1..Len(checks_to_compile)}
               ELSE {}]
  /\ succeeded' = {}
  /\ failed' = {}
  /\ wrote' = NoWrites
  /\ readerObs' = [status |-> "none", inSave |-> FALSE]
  /\ UNCHANGED <<inputs, disk, clock, stable>>

(***************************************************************************)
(* A concurrent reader of workflows.json: load_workflows of another        *)
(* process, or read_json of the dashboard.                                 *)
(***************************************************************************)
read_cache(cache) ==
  IF ~cache.exists THEN "absent"
  ELSE IF JsonValid(cache.content) THEN "complete" ELSE "torn"

\* Outside a save the file is closed and whole; the reads that matter are
\* those that fall between the open and the close of save_workflows.
ReaderReads ==
  /\ pc = "save"
  /\ readerObs' = [status |-> read_cache(workflowCache), inSave |-> pc = "save"]
  /\ readerObs' # readerObs
  /\ UNCHANGED <<inputs, disk, clock, pc, locals, crashCause, ghosts, stable>>

Next ==
  \/ EditRegistry
  \/ AlterTable
  \/ CorruptCache
  \/ StartRun
  \/ DetectChecks
  \/ DetectSchema
  \/ LoadWorkflows
  \/ Schedule
  \/ CompileOk
  \/ CompileRaise
  \/ SaveOpen
  \/ SaveWrite
  \/ SaveClose
  \/ Report
  \/ EndRun
  \/ ReaderReads

Spec == Init /\ [][Next]_vars

(***************************************************************************)
(* The same program with the faults of the file system added: a table file *)
(* left empty, a write of workflows.json that fails.                       *)
(***************************************************************************)
\* data/users.csv is left with no content between runs
TruncateTable ==
  /\ pc = "idle"
  /\ dataCols["users"] # TableOf(<<>>)
  /\ dataCols' = [dataCols EXCEPT !["users"] = TableOf(<<>>)]
  /\ stable' = FALSE
  /\ UNCHANGED <<checksJson, disk, clock, pc, locals, crashCause, ghosts, readerObs>>

\* save_workflows line 134: a write of json.dump raises OSError; nothing
\* around line 250 catches it
SaveRaise ==
  /\ pc = "save"
  /\ pending # <<>>
  /\ pc' = "crashed"
  /\ crashCause' = "CachePersistenceError"
  /\ UNCHANGED <<inputs, disk, clock, locals, ghosts, stable, readerObs>>

NextFaults ==
  \/ Next
  \/ TruncateTable
  \/ SaveRaise

SpecFaults == Init /\ [][NextFaults]_vars

(***************************************************************************)
(* The runs of main() over a registry that is rewritten between runs, the  *)
(* tables left alone and use_agent returning.                              *)
(***************************************************************************)
InitRewritten ==
  /\ checksJson \in Rewritten
  /\ dataCols = [t \in Tables |-> TableOf(<<"id">>)]
  /\ checksLast = NoFile
  /\ schemaCache = NoFile
  /\ workflowCache = NoFile
  /\ clock = 0
  /\ pc = "idle"
  /\ FreshLocals
  /\ crashCause = "none"
  /\ pre = NoPre
  /\ succeeded = {}
  /\ failed = {}
  /\ wrote = NoWrites
  /\ stable = FALSE
  /\ readerObs = [status |-> "none", inSave |-> FALSE]

RewriteRegistry ==
  /\ pc = "idle"
  /\ \E r \in Rewritten \ {checksJson} : checksJson' = r
  /\ stable' = FALSE
  /\ UNCHANGED <<dataCols, disk, clock, pc, locals, crashCause, ghosts, readerObs>>

NextRewritten ==
  \/ RewriteRegistry
  \/ StartRun
  \/ DetectChecks
  \/ DetectSchema
  \/ LoadWorkflows
  \/ Schedule
  \/ CompileOk
  \/ SaveOpen
  \/ SaveWrite
  \/ SaveClose
  \/ Report
  \/ EndRun

SpecRewritten == InitRewritten /\ [][NextRewritten]_vars

(***************************************************************************)
(* The runs of main() over registries out of the ordinary, edited between  *)
(* runs, the tables changing, no call failing.                             *)
(***************************************************************************)
InitUnusual ==
  /\ checksJson \in Unusual
  /\ dataCols \in [Tables -> UNION {TableChoices(t) : t \in Tables}]
  /\ \A t \in Tables : dataCols[t] \in TableChoices(t)
  /\ checksLast = NoFile
  /\ schemaCache = NoFile
  /\ workflowCache = NoFile
  /\ clock = 0
  /\ pc = "idle"
  /\ FreshLocals
  /\ crashCause = "none"
  /\ pre = NoPre
  /\ succeeded = {}
  /\ failed = {}
  /\ wrote = NoWrites
  /\ stable = FALSE
  /\ readerObs = [status |-> "none", inSave |-> FALSE]

EditUnusual ==
  /\ pc = "idle"
  /\ \E r \in Unusual \ {checksJson} : checksJson' = r
  /\ stable' = FALSE
  /\ UNCHANGED <<dataCols, disk, clock, pc, locals, crashCause, ghosts, readerObs>>

NextUnusual ==
  \/ EditUnusual
  \/ AlterTable
  \/ StartRun
  \/ DetectChecks
  \/ DetectSchema
  \/ LoadWorkflows
  \/ Schedule
  \/ CompileOk
  \/ SaveOpen
  \/ SaveWrite
  \/ SaveClose
  \/ Report
  \/ EndRun

SpecUnusual == InitUnusual /\ [][NextUnusual]_vars

(***************************************************************************)
(* Vocabulary of the properties.                                           *)
(***************************************************************************)
\* main() is past line 212: the schedule of this run is computed
Scheduled ==
  \/ pc \in {"compile", "save", "report", "done"}
  \/ pc = "crashed" /\ crashCause = "CompilationError"

\* main() is past line 177: both detectors have returned
Detected == pc = "load" \/ pc = "schedule" \/ Scheduled

\* the run is over, normally or by an exception
RunEnded == pc \in {"done", "crashed"}

\* every row of the registry, as main() sees rows
AllChecks ==
  LET df == DataFrame(checksJson.rows)
  IN [i \in 1..Len(checksJson.rows) |-> RowToDict(df, i)]

ScheduledKeys == {key_for(checks_to_compile[i]) : i \in 1..Len(checks_to_compile)}

PersistedWorkflows == load_workflows(workflowCache)
PreRunWorkflows == load_workflows(pre.workflows)

\* the persisted cache holds, under k, an entry compiled in this run
FreshPersisted(k) ==
  /\ DictHas(PersistedWorkflows, k)
  /\ \A j \in 1..Len(DictGet(PersistedWorkflows, k)) :
        DictGet(PersistedWorkflows, k)[j].compiled_at = clock

\* the persisted entry under k is what it was before the run, or still absent
SameAsPreRun(k) ==
  IF DictHas(PreRunWorkflows, k)
  THEN DictHas(PersistedWorkflows, k)
       /\ DictGet(PersistedWorkflows, k) = DictGet(PreRunWorkflows, k)
  ELSE ~DictHas(PersistedWorkflows, k)

\* the schema snapshot the run found, as a dict
PreRunSchema == IF pre.schema.exists THEN JsonLoad(pre.schema.content) ELSE <<>>

\* the tables whose column list differs from the snapshot the run found,
\* or that are in only one of the two
TablesThatChanged ==
  {t \in DictKeys(PreRunSchema) \cup DictKeys(current_schema) :
     ~(/\ DictHas(PreRunSchema, t)
       /\ DictHas(current_schema, t)
       /\ DictGet(PreRunSchema, t) = DictGet(current_schema, t))}

\* the snapshots the run found say exactly what the inputs are now
InputsMatchSnapshots ==
  /\ checksJson.ok
  /\ pre.checks.exists
  /\ pre.schema.exists
  /\ pre.checks.content = current_csv_of(DataFrame(checksJson.rows))
  /\ DictEq(PreRunSchema,
            observe_schema(target_tables_of(DataFrame(checksJson.rows)), dataCols))

\* r1 and r2 hold the same rows (same keys, same values), in any order of
\* rows and of keys
ReorderingOf(r1, r2) ==
  /\ r1.ok /\ r2.ok
  /\ Len(r1.rows) = Len(r2.rows)
  /\ \E p \in Permutations(1..Len(r1.rows)) :
        \A i \in 1..Len(r1.rows) :
          /\ DictKeys(r1.rows[i]) = DictKeys(r2.rows[p[i]])
          /\ \A k \in DictKeys(r1.rows[i]) :
                DictGet(r1.rows[i], k) = DictGet(r2.rows[p[i]], k)

(***************************************************************************)
(* C1. Bootstrap: a run that finds no checks_last.csv reports              *)
(* registry_changed = true, leaves the snapshot persisted, and schedules   *)
(* every row of the registry.                                              *)
(***************************************************************************)
C1_Bootstrap ==
  (Scheduled /\ ~pre.checks.exists) =>
    /\ checks_changed
    /\ checksLast = FileOf(current_csv_of(DataFrame(checksJson.rows)))
    /\ checks_to_compile = AllChecks

C1_Witness ==
  /\ pc = "compile"
  /\ ~pre.checks.exists
  /\ Len(checks_to_compile) = 4

(***************************************************************************)
(* C2. Monotonic safety: whenever registry_changed is true the schedule is *)
(* the full list of checks, whatever the schema detector said and whatever *)
(* the checks' target tables are (a check without target table included).  *)
(***************************************************************************)
C2_MonotonicSafety ==
  (Scheduled /\ checks_changed) => checks_to_compile = AllChecks

C2_Witness ==
  /\ Scheduled
  /\ checks_changed
  /\ ~schema_changed
  /\ pre.checks.exists
  /\ \E i \in 1..Len(checks_to_compile) :
        parse_targets(RowGet(checks_to_compile[i], "target_table")) = <<>>

(***************************************************************************)
(* C3. Table-affinity precision: with the registry unchanged and some      *)
(* table's column list changed, the schedule is exactly the checks whose   *)
(* normalized targets meet the changed tables.                             *)
(***************************************************************************)
C3_TableAffinity ==
  (Scheduled /\ ~checks_changed /\ TablesThatChanged # {}) =>
    SeqToSet(checks_to_compile) =
      {AllChecks[i] : i \in {j \in 1..Len(AllChecks) :
         SeqToSet(parse_targets(RowGet(AllChecks[j], "target_table")))
           \cap TablesThatChanged # {}}}

(***************************************************************************)
(* C4. Unchanged scenario: when both snapshots exist and say what the      *)
(* registry and the column lists are now, nothing is scheduled, use_agent  *)
(* is not called and workflows.json is not written.                        *)
(***************************************************************************)
C4_Unchanged ==
  (Scheduled /\ InputsMatchSnapshots) =>
    /\ checks_to_compile = <<>>
    /\ succeeded = {} /\ failed = {}
    /\ ~wrote.workflows
    /\ workflowCache = pre.workflows

(***************************************************************************)
(* C5. Idempotence: when the detectors run again with no input changed     *)
(* since they last ran, both report changed = false and neither writes     *)
(* its snapshot.                                                           *)
(***************************************************************************)
C5_Idempotent ==
  (Detected /\ pre.stable) =>
    /\ ~checks_changed /\ ~schema_changed
    /\ ~wrote.checks /\ ~wrote.schema
    /\ checksLast = pre.checks /\ schemaCache = pre.schema

(***************************************************************************)
(* C6. Failure isolation: after a run in which one compilation failed, the *)
(* persisted cache holds a fresh entry for every check whose compilation   *)
(* succeeded, and the failed check's entry is as before the run (or still  *)
(* absent).                                                                *)
(***************************************************************************)
C6_FailureIsolation ==
  (RunEnded /\ failed # {}) =>
    /\ \A k \in succeeded : FreshPersisted(k)
    /\ \A k \in failed : SameAsPreRun(k)

(***************************************************************************)
(* C7. A failed compilation is not fatal: the run goes on with the other   *)
(* scheduled checks and ends normally; only a registry that cannot be      *)
(* loaded keeps a run from completing.                                     *)
(***************************************************************************)
C7_CompilationNotFatal ==
  RunEnded =>
    \/ pc = "crashed" /\ crashCause = "RegistryLoadError"
    \/ pc = "done" /\ succeeded \cup failed = ScheduledKeys

C9_AtomicFlush == readerObs.inSave => readerObs.status # "torn"

(***************************************************************************)
(* C10. Flush ordering: the cache is persisted once per run, the persist   *)
(* starts only when every scheduled check has been put, and no put follows *)
(* it.                                                                     *)
(***************************************************************************)
C10_FlushAfterPuts ==
  [][/\ (pc # "save" /\ pc' = "save") =>
          /\ ~wrote.workflows
          /\ succeeded = ScheduledKeys
          /\ \A k \in ScheduledKeys :
               DictHas(workflows, k) /\ DictGet(workflows, k)[1].compiled_at = clock
     /\ (wrote.workflows /\ pc' # "idle") => workflows' = workflows]_vars

C10_Witness ==
  /\ pc = "save"
  /\ pending = <<>>
  /\ Cardinality(succeeded) >= 3

C12_CorruptCacheEmpty ==
  [][(pc = "load" /\ read_cache(workflowCache) # "complete") =>
       /\ workflows' = <<>>
       /\ pc' = "schedule"
       /\ crashCause' = "none"]_vars

C12_Witness ==
  /\ pc = "done"
  /\ read_cache(pre.workflows) = "torn"
  /\ Len(pre.workflows.content) > 1
  /\ workflows = <<>>

(***************************************************************************)
(* C13. Registry detector with an existing snapshot: it returns            *)
(* changed = true and overwrites checks_last.csv with the current          *)
(* canonical form if the hash of the current canonical form differs from   *)
(* the hash of the persisted snapshot; otherwise it returns                *)
(* changed = false and does not write the snapshot.                        *)
(***************************************************************************)
C13_RegistryDetector ==
  ((pc = "detect_schema" \/ Detected) /\ pre.checks.exists) =>
    IF _sha256(current_csv_of(checks_df)) # _sha256(pre.checks.content)
    THEN /\ checks_changed
         /\ wrote.checks
         /\ checksLast = FileOf(current_csv_of(checks_df))
    ELSE /\ ~checks_changed
         /\ ~wrote.checks
         /\ checksLast = pre.checks

(***************************************************************************)
(* C14. Schema detector precision: the tables a run treats as changed are  *)
(* exactly the tables added to, removed from, or listed with other columns *)
(* than in the schema snapshot the run found; a table whose column list is *)
(* as persisted is not among them, even when another table changed.        *)
(***************************************************************************)
C14_ChangedTablesPrecise ==
  Scheduled => changed_tables_of(schema_changed, target_tables) = TablesThatChanged

(***************************************************************************)
(* C15. Schema detector change signal: detect_schema_changes returns       *)
(* changed = true and persists the current mapping exactly when no schema  *)
(* snapshot exists or the current mapping differs from the persisted one   *)
(* in its tables or in some table's column list; otherwise it returns      *)
(* changed = false and writes nothing.                                     *)
(***************************************************************************)
C15_SchemaChangeSignal ==
  Detected =>
    IF ~pre.schema.exists \/ TablesThatChanged # {}
    THEN /\ schema_changed
         /\ wrote.schema
         /\ schemaCache = FileOf(JsonDump(current_schema))
    ELSE /\ ~schema_changed
         /\ ~wrote.schema
         /\ schemaCache = pre.schema

C15_Witness ==
  /\ pc = "load"
  /\ pre.schema.exists
  /\ ~checks_changed
  /\ schema_changed
  /\ Cardinality(TablesThatChanged) = 1
  /\ Len(current_schema) = 3

(***************************************************************************)
(* C16 (under SpecRewritten). Canonicalization determinism: when the        *)
(* registry is non-empty and holds the rows of the registry the snapshot   *)
(* was taken from, in another order of rows and/or of keys, _stable_csv    *)
(* gives the same text for both, so the hashes agree and                   *)
(* detect_checks_changes reports no change.                                *)
(***************************************************************************)
C16_Determinism ==
  ((pc = "detect_schema" \/ Detected) /\ pre.checks.exists /\ ~DfEmpty(checks_df)) =>
    \A r \in Rewritten \ {checksJson} :
      (ReorderingOf(r, checksJson)
         /\ pre.checks.content = _stable_csv(DataFrame(r.rows))) =>
        /\ _stable_csv(checks_df) = _stable_csv(DataFrame(r.rows))
        /\ _sha256(_stable_csv(checks_df)) = _sha256(pre.checks.content)
        /\ ~checks_changed

\* a is an artifact of the given type produced for check k in this run
FreshArtifact(a, type, k) ==
  /\ DOMAIN a = {"type", "artifact", "compiled_at", "compiled_against"}
  /\ a.type = type
  /\ a.artifact = [kind |-> type, check |-> k]
  /\ a.compiled_at = clock
  /\ a.compiled_against =
        [checks_hash |-> checks_hash_of(checks_df),
         schema_cols |-> schema_context_of(current_schema, target_tables)]

(***************************************************************************)
(* C17. put is a full replacement: once a check is recompiled, the entry   *)
(* under its key is the new plan artifact and the new execution artifact,  *)
(* both with this run's compiled_at and compiled_against, and nothing      *)
(* else; no artifact, field or stamp of the entry it replaces is left.     *)
(***************************************************************************)
C17_PutReplaces ==
  \A k \in succeeded :
    /\ DictHas(workflows, k)
    /\ Len(DictGet(workflows, k)) = 2
    /\ FreshArtifact(DictGet(workflows, k)[1], "plan", k)
    /\ FreshArtifact(DictGet(workflows, k)[2], "execution", k)

C17_Witness ==
  /\ pc = "compile"
  /\ \E k \in succeeded :
        /\ DictHas(PreRunWorkflows, k)
        /\ DictGet(PreRunWorkflows, k)[1].compiled_against
              # DictGet(workflows, k)[1].compiled_against
        /\ DictGet(PreRunWorkflows, k)[1].compiled_at # clock

(***************************************************************************)
(* C18. Frame of a run: for every check identity not recompiled in the run *)
(* (not scheduled, or scheduled and failed), the entry under its key in    *)
(* the persisted cache after the run is the entry before the run, or is    *)
(* absent as before; only a successful recompilation creates or replaces   *)
(* an entry.                                                               *)
(***************************************************************************)
C18_Frame ==
  RunEnded =>
    \A k \in (DictKeys(PreRunWorkflows) \cup DictKeys(PersistedWorkflows)
                \cup ScheduledKeys \cup failed) \ succeeded :
      SameAsPreRun(k)

C18_Witness ==
  /\ pc = "done"
  /\ wrote.workflows
  /\ succeeded # {}
  /\ \E k \in DictKeys(PreRunWorkflows) \ ScheduledKeys :
        DictGet(PersistedWorkflows, k)[1].compiled_at # clock

(***************************************************************************)
(* C19. compiled_against stamp: every artifact a put writes carries a      *)
(* checks_hash equal to the hash of the canonical form this run's registry *)
(* detector computed and compared, which is also the content of            *)
(* checks_last.csv after the run, and a schema_cols mapping equal to the   *)
(* table -> columns mapping this run's schema detector observed.           *)
(***************************************************************************)
C19_CompiledAgainst ==
  \A k \in succeeded : \A j \in 1..Len(DictGet(workflows, k)) :
    LET stamp == DictGet(workflows, k)[j].compiled_against
    IN /\ stamp.checks_hash = _sha256(current_csv_of(checks_df))
       /\ stamp.checks_hash = _sha256(checksLast.content)
       /\ DictEq(stamp.schema_cols, current_schema)

\* data/<name>.csv does not exist
TableAbsent(name) == ~(Len(name) = 1 /\ name[1] \in Tables /\ dataCols[name[1]].exists)

(***************************************************************************)
(* C20. Absent table: for a table of interest whose file does not exist    *)
(* the schema detector records an empty column list and raises nothing;    *)
(* if the snapshot the run found had a non-empty column list for the       *)
(* table, the detector reports changed = true.                             *)
(***************************************************************************)
C20_AbsentTable ==
  Detected =>
    \A i \in 1..Len(target_tables) :
      TableAbsent(target_tables[i]) =>
        /\ DictHas(current_schema, target_tables[i])
        /\ DictGet(current_schema, target_tables[i]) = <<>>
        /\ (DictHas(PreRunSchema, target_tables[i])
              /\ DictGet(PreRunSchema, target_tables[i]) # <<>>) =>
             /\ schema_changed
             /\ DictGet(JsonLoad(schemaCache.content), target_tables[i]) = <<>>

C20_Witness ==
  /\ pc = "load"
  /\ ~checks_changed
  /\ schema_changed
  /\ \E i \in 1..Len(target_tables) :
        /\ TableAbsent(target_tables[i])
        /\ DictHas(PreRunSchema, target_tables[i])
        /\ DictGet(PreRunSchema, target_tables[i]) # <<>>
        /\ DictGet(current_schema, target_tables[i]) = <<>>

(***************************************************************************)
(* C21 (under SpecFaults). Schema read error is non-fatal per table: when  *)
(* the file of one table of interest exists and cannot be read, the schema *)
(* detector records an empty column list for it, still observes every      *)
(* other table, and the run goes on.                                       *)
(***************************************************************************)
C21_SchemaReadNonFatal ==
  (pc \notin {"idle", "detect_checks", "detect_schema"}
     /\ ~registry_raises(checksJson)
     /\ schema_read_raises(target_tables, dataCols)) =>
    /\ Detected
    /\ DictEq(current_schema, observe_schema(target_tables, dataCols))
    /\ \A i \in 1..Len(target_tables) :
         read_csv_raises(target_tables[i], dataCols) =>
           DictGet(current_schema, target_tables[i]) = <<>>

(***************************************************************************)
(* C22 (under SpecFaults). Flush retry: a run whose write of               *)
(* workflows.json failed once does not end with the freshly compiled       *)
(* entries lost; the flush is tried again and the cache holds them when    *)
(* the run ends.                                                           *)
(***************************************************************************)
C22_FlushRetry ==
  (RunEnded /\ wrote.workflows) => \A k \in succeeded : FreshPersisted(k)

(***************************************************************************)
(* C23. Empty-registry sentinel: an empty registry has one fixed non-empty *)
(* canonical form, and both the snapshot of the detector and the           *)
(* checks_hash stamped on compiled artifacts are made from that same       *)
(* form, never from the empty string.                                      *)
(***************************************************************************)
C23_EmptySentinel ==
  ((pc = "detect_schema" \/ Detected) /\ DfEmpty(checks_df)) =>
    /\ current_csv_of(checks_df) = <<"check_id", LF>>
    /\ checksLast.content = <<"check_id", LF>>
    /\ \A k \in succeeded : \A j \in 1..Len(DictGet(workflows, k)) :
         /\ DictGet(workflows, k)[j].compiled_against.checks_hash
              = _sha256(<<"check_id", LF>>)
         /\ DictGet(workflows, k)[j].compiled_against.checks_hash # _sha256(<<>>)

\* the registry is loaded: detect_checks_changes has returned
RegistryLoaded == pc = "detect_schema" \/ Detected

(***************************************************************************)
(* C24 (under SpecUnusual). target_table normalization: whatever the       *)
(* target_table of a check is (comma-separated string, list, missing,      *)
(* None, other scalar), parse_targets gives names that are non-empty, have *)
(* no surrounding whitespace, no upper-case letter and no delimiter.       *)
(***************************************************************************)
C24_TargetsNormalized ==
  RegistryLoaded =>
    \A i \in 1..Len(checks_df.data) :
      \A n \in SeqToSet(RowTargets(checks_df, i)) :
        /\ n # <<>>
        /\ Strip(n) = n
        /\ Lower(n) = n
        /\ ~Contains(n, COMMA)

\* the target_table value names no table: missing, None, empty, or only
\* delimiters and whitespace
Unresolvable(v) ==
  \/ v.t \in {"none", "nan"}
  \/ v.t = "str" /\ \A i \in 1..Len(v.s) : v.s[i] = COMMA \/ IsSpace(v.s[i])
  \/ v.t = "list" /\ \A i \in 1..Len(v.l) : Strip(v.l[i]) = <<>>

(***************************************************************************)
(* C25 (under SpecUnusual). A check with no resolvable target table is     *)
(* never scheduled in a run where the registry is unchanged, whatever      *)
(* tables changed; only registry_changed = true schedules it.              *)
(***************************************************************************)
C25_NoTargetNotScheduled ==
  (Scheduled /\ ~checks_changed) =>
    \A i \in 1..Len(checks_to_compile) :
      ~Unresolvable(RowGet(checks_to_compile[i], "target_table"))

(***************************************************************************)
(* C26. No stale artifact after an aborted run: when a run detected a      *)
(* change, overwrote the snapshot and ended by an exception before         *)
(* save_workflows, the next run over the same registry and tables          *)
(* schedules the checks that run had scheduled, instead of reporting no    *)
(* change.                                                                 *)
(***************************************************************************)
C26_NoStaleAfterAbort ==
  (Scheduled /\ pre.stable) => pre.owed \subseteq ScheduledKeys

\* the keys of the checks of the registry as it is now
RegistryKeys == {key_for(AllChecks[i]) : i \in 1..Len(AllChecks)}

(***************************************************************************)
(* C27 (under SpecUnusual, where no compilation fails). Cache/snapshot     *)
(* consistency: after runs that all completed, every persisted cache entry *)
(* under the key of a check of the current registry has a checks_hash      *)
(* equal to the SHA-256 of the persisted registry snapshot.                *)
(***************************************************************************)
C27_CacheSnapshotConsistent ==
  pc = "done" =>
    \A k \in RegistryKeys \cap DictKeys(PersistedWorkflows) :
      \A j \in 1..Len(DictGet(PersistedWorkflows, k)) :
        DictGet(PersistedWorkflows, k)[j].compiled_against.checks_hash
          = _sha256(checksLast.content)

(***************************************************************************)
(* C28. Cache coverage: at the end of every run that completes, every      *)
(* check of the registry has an entry under its key in the persisted       *)
(* cache, also when workflows.json was missing or damaged at the start of  *)
(* the run and both snapshots were intact and unchanged.                   *)
(***************************************************************************)
C28_CacheCoverage ==
  pc = "done" => RegistryKeys \subseteq DictKeys(PersistedWorkflows)

(***************************************************************************)
(* C29 (under SpecUnusual). Snapshot freshness: once                       *)
(* detect_checks_changes has returned, checks_last.csv hashes equal to     *)
(* the canonical form of the registry just loaded, and once                *)
(* detect_schema_changes has returned, schema_cols.json equals the mapping *)
(* just observed, whether they returned changed = true or false.           *)
(***************************************************************************)
C29_SnapshotFresh ==
  /\ RegistryLoaded =>
       /\ checksLast.exists
       /\ _sha256(checksLast.content) = _sha256(current_csv_of(checks_df))
  /\ Detected =>
       /\ schemaCache.exists
       /\ DictEq(JsonLoad(schemaCache.content), current_schema)

\* the identity of a check: the pair (check_id, check_name)
Identity(row) == <<RowGet(row, "check_id"), RowGet(row, "check_name")>>

(***************************************************************************)
(* C30 (under SpecUnusual). Cache key injectivity: two checks of different *)
(* identity (check_id, check_name) never get the same key from key_for, so *)
(* the checks recompiled in a run leave one entry per identity: no put     *)
(* replaces the entry of a check of another identity.                      *)
(***************************************************************************)
C30_KeyInjective ==
  /\ RegistryLoaded =>
       \A i, j \in 1..Len(AllChecks) :
         Identity(AllChecks[i]) # Identity(AllChecks[j]) =>
           key_for(AllChecks[i]) # key_for(AllChecks[j])
  /\ pc \in {"save", "report", "done"} =>
       Cardinality(succeeded) =
         Cardinality({Identity(checks_to_compile[i]) : i \in 1..Len(checks_to_compile)})

=============================================================================
